---- MODULE Spec2Model ----
(***************************************************************************)
(* A model of the Transfer class of the Coinbase Node.js SDK               *)
(* (src/src/coinbase/transfer.ts): the record it wraps, its synchronous    *)
(* accessors, the status resolution against the blockchain provider        *)
(* (getStatus) and the polling loop built on it (wait).                    *)
(*                                                                         *)
(* JavaScript runs one task at a time: a synchronous method is one atomic  *)
(* action, an async method is cut at its await points.  One asynchronous   *)
(* call of the Transfer is in flight at a time (async calls share no       *)
(* mutable state, so their interleaving adds nothing); the synchronous     *)
(* methods interleave freely with it at its await points.                  *)
(*                                                                         *)
(* Time is counted in whole seconds (clock); Date.now() is in              *)
(* milliseconds.                                                           *)
(*                                                                         *)
(* Specifications: Spec is a constructed Transfer with all its methods;    *)
(* SpecCodec is the synchronous methods alone, over more payloads, amounts *)
(* and assets; SpecNew starts before the constructor; SpecStatus is        *)
(* getStatus called repeatedly by a caller that keeps a terminal status.   *)
(***************************************************************************)
EXTENDS Integers, Sequences, FiniteSets, TLC

VARIABLES
    model,        \* this.model: the TransferModel the Transfer wraps
    transaction,  \* this.transaction: the cached / signed ethers.Transaction
    op,           \* the async method in flight: "none", "getStatus", "toString", "wait"
    gs,           \* the frame of the getStatus invocation in flight (or the last one)
    w,            \* the frame of the wait invocation in flight (or the last one)
    result,       \* how the last finished async method ended (its settled promise)
    ret,          \* how the last getTransaction call ended
    seen,         \* what getSignedPayload and getTransactionHash last returned
    clock,        \* the wall clock, in seconds
    client,       \* this.client: the API clients the Transfer was constructed with
    made,         \* how `new Transfer(transferModel, client)` ended
    kept,         \* a terminal status the caller got from getStatus and kept
    amountRet     \* what getAmount last returned

vars ==
    <<model, transaction, op, gs, w, result, ret, seen, clock, client, made, kept, amountRet>>

-----------------------------------------------------------------------------
(* Bounds of the model *)

\* the clock stops advancing here
MaxClock == 3

\* the arguments wait is called with, in seconds
IntervalSeconds == {1, 2}
TimeoutSeconds == {0, 1, 2}

-----------------------------------------------------------------------------
(* JavaScript values *)

Undefined == "undefined"
Null == "null"

\* !v for the string-or-undefined values the code tests
Falsy(v) == v \in {Undefined, Null, ""}

\* TransferStatus (./types)
PENDING == "PENDING"
BROADCAST == "BROADCAST"
COMPLETE == "COMPLETE"
FAILED == "FAILED"
TransferStatus == {PENDING, BROADCAST, COMPLETE, FAILED}

TransferIds == {"t1", "t2"}
TransactionHashes == {Undefined, "0xh1"}
SignedPayloads == {Undefined, "0xs1"}

-----------------------------------------------------------------------------
(* The blockchain provider (ethers.Provider): every query is answered by   *)
(* any of these, independently of the earlier answers.                     *)

ProviderErrors == {"NetworkError", "ServerError"}
ErrorReplies == {[kind |-> "error", error |-> e] : e \in ProviderErrors}

\* getTransaction: null | TransactionResponse (blockHash: null | string) | rejection
TransactionReplies ==
    {[kind |-> "null"], [kind |-> "tx", blockHash |-> Null],
     [kind |-> "tx", blockHash |-> "0xb1"]} \cup ErrorReplies

\* getTransactionReceipt: null | TransactionReceipt (status 1 | 0) | rejection
ReceiptReplies ==
    {[kind |-> "null"], [kind |-> "receipt", status |-> 1],
     [kind |-> "receipt", status |-> 0]} \cup ErrorReplies

NoReply == [kind |-> "unset"]

\* TransferClients (lines 11-14): the transfer API client and the provider
Provider == "provider"
Client(provider) == [transfer |-> "transferApi", baseSepoliaProvider |-> provider]

-----------------------------------------------------------------------------
(* Settled promises / outcomes *)

NoResult == [kind |-> "none"]
\* the promise of an async method that has not settled, or no call yet
Pending == [op |-> "none", kind |-> "none"]
Return(v) == [kind |-> "return", value |-> v]
Throw(e) == [kind |-> "throw", value |-> e]

\* new Error("Transfer timed out")
TimeoutErrorWithIdMutant(transfer) ==
    [name |-> "Error", message |-> <<"Transfer timed out", transfer.transfer_id>>]

TimeoutError(transfer) == [name |-> "Error", message |-> <<"Transfer timed out">>]

\* the rejection of a provider query, as the awaiting code sees it
ProviderError(reply) == [name |-> reply.error]

-----------------------------------------------------------------------------
(* Strings.  A string is an atomic value of the model; Chars gives the      *)
(* characters of the strings the model uses.                                *)

\* {"chainId":84532,"nonce":0,"maxPriorityFeePerGas":1,"maxFeePerGas":2,
\*  "gas":21000,"to":null,"value":5,"input":"0x"} in UTF-8
GoodJsonBytes ==
    <<123, 34, 99, 104, 97, 105, 110, 73, 100, 34, 58, 56, 52, 53, 51, 50, 44, 34, 110,
      111, 110, 99, 101, 34, 58, 48, 44, 34, 109, 97, 120, 80, 114, 105, 111, 114, 105, 116,
      121, 70, 101, 101, 80, 101, 114, 71, 97, 115, 34, 58, 49, 44, 34, 109, 97, 120, 70,
      101, 101, 80, 101, 114, 71, 97, 115, 34, 58, 50, 44, 34, 103, 97, 115, 34, 58, 50,
      49, 48, 48, 48, 44, 34, 116, 111, 34, 58, 110, 117, 108, 108, 44, 34, 118, 97, 108,
      117, 101, 34, 58, 53, 44, 34, 105, 110, 112, 117, 116, 34, 58, 34, 48, 120, 34, 125>>

\* the hex encoding of GoodJsonBytes
GoodPayload ==
    "7b22636861696e4964223a38343533322c226e6f6e6365223a302c226d61785072696f72697479466565506572476173223a312c226d6178466565506572476173223a322c22676173223a32313030302c22746f223a6e756c6c2c2276616c7565223a352c22696e707574223a223078227d"

\* GoodPayload followed by one more hex digit: a hex string of odd length
OddPayload ==
    "7b22636861696e4964223a38343533322c226e6f6e6365223a302c226d61785072696f72697479466565506572476173223a312c226d6178466565506572476173223a322c22676173223a32313030302c22746f223a6e756c6c2c2276616c7565223a352c22696e707574223a223078227d1"

HexDigits ==
    <<"0", "1", "2", "3", "4", "5", "6", "7", "8", "9", "a", "b", "c", "d", "e", "f">>

HexEncode(bytes) ==
    [i \in 1..(2 * Len(bytes)) |->
        LET byte == bytes[(i + 1) \div 2] IN
        IF i % 2 = 1 THEN HexDigits[(byte \div 16) + 1] ELSE HexDigits[(byte % 16) + 1]]

Digit(d) == HexDigits[d + 1]

\* the decimal string of d * 10^k
TimesPow10(d, k) == <<Digit(d)>> \o [i \in 1..k |-> "0"]

Chars(s) ==
    CASE s = GoodPayload -> HexEncode(GoodJsonBytes)
      [] s = OddPayload -> Append(HexEncode(GoodJsonBytes), "1")
      [] s = "0x1" -> <<"0", "x", "1">>
      [] s = "1" -> <<"1">>
      [] s = "zz" -> <<"z", "z">>
      [] s = "311" -> <<"3", "1", "1">>
      [] s = "2500000000000000000" -> <<"2">> \o TimesPow10(5, 17)
      [] s = "1000000000000000000" -> TimesPow10(1, 18)
      [] s = "1000000000000000000000000000000" -> TimesPow10(1, 30)
      [] s = "999" -> <<"9", "9", "9">>

-----------------------------------------------------------------------------
(* Accessors (lines 49-137) *)

GetId == model.transfer_id
GetNetworkId == model.network_id
GetWalletId == model.wallet_id
GetFromAddressId == model.address_id
GetDestinationAddressId == model.destination
GetAssetId == model.asset_id
GetUnsignedPayload == model.unsigned_payload
GetSignedPayload == model.signed_payload
GetTransactionHash == model.transaction_hash

\* Coinbase.assetList.Eth and Coinbase.WEI_PER_ETHER = 10^WeiDecimals (./coinbase)
Eth == "eth"
WeiDecimals == 18

\* BigInt(decimal string): the digits, most significant first
BigIntOfDecimal(s) == Chars(s)

\* a / 10^k on digit sequences: BigInt division truncates
DivPow10(digits, k) ==
    IF Len(digits) <= k THEN <<"0">> ELSE SubSeq(digits, 1, Len(digits) - k)

\* lines 103-110
GetAmount ==
    LET amount == BigIntOfDecimal(model.amount) IN
    IF GetAssetId = Eth THEN DivPow10(amount, WeiDecimals) ELSE BigIntOfDecimal(model.amount)

\* lines 232-234
GetTransactionLink == <<"https://sepolia.basescan.org/tx/", GetTransactionHash>>

\* lines 243-248: the template string, as its interpolated parts
ToStringValue(status) ==
    [transferId |-> GetId, networkId |-> GetNetworkId,
     fromAddressId |-> GetFromAddressId,
     destinationAddressId |-> GetDestinationAddressId,
     assetId |-> GetAssetId, amount |-> GetAmount,
     transactionHash |-> GetTransactionHash,
     transactionLink |-> GetTransactionLink, status |-> status]

-----------------------------------------------------------------------------
(* getTransaction (lines 145-177) *)

\* String.prototype.match(/../g): the consecutive pairs of characters, a
\* trailing odd character dropped; null (here <<>>) when there is no pair
MatchPairs(cs) == [i \in 1..(Len(cs) \div 2) |-> <<cs[2 * i - 1], cs[2 * i]>>]

HexValue(c) ==
    CASE c = "0" -> 0 [] c = "1" -> 1 [] c = "2" -> 2 [] c = "3" -> 3
      [] c = "4" -> 4 [] c = "5" -> 5 [] c = "6" -> 6 [] c = "7" -> 7
      [] c = "8" -> 8 [] c = "9" -> 9 [] c = "a" -> 10 [] c = "b" -> 11
      [] c = "c" -> 12 [] c = "d" -> 13 [] c = "e" -> 14 [] c = "f" -> 15
      [] OTHER -> 16

IsHex(c) == HexValue(c) < 16

\* parseInt(pair, 16): <<n>>, or <<>> for NaN.  parseInt reads the longest
\* prefix of hex digits, after dropping a leading "0x".
ParseInt16(pair) ==
    IF pair[1] = "0" /\ pair[2] = "x" THEN <<>>
    ELSE IF ~IsHex(pair[1]) THEN <<>>
    ELSE IF ~IsHex(pair[2]) THEN <<HexValue(pair[1])>>
    ELSE <<16 * HexValue(pair[1]) + HexValue(pair[2])>>

\* new Uint8Array(rawPayload): NaN becomes 0, a number is taken modulo 256
ToUint8(n) == IF n = <<>> THEN 0 ELSE n[1] % 256

\* JSON values
JsonNumber(n) == [t |-> "number", v |-> n]
JsonString(x) == [t |-> "string", v |-> x]
JsonNull == [t |-> "null"]
JsonUndefined == [t |-> "undefined"]

GoodJsonObject ==
    [chainId |-> JsonNumber(84532), nonce |-> JsonNumber(0),
     maxPriorityFeePerGas |-> JsonNumber(1), maxFeePerGas |-> JsonNumber(2),
     gas |-> JsonNumber(21000), to |-> JsonNull, value |-> JsonNumber(5),
     input |-> JsonString("0x")]

\* JSON.parse(new TextDecoder().decode(bytes)) on the byte strings the model
\* produces: the parsed object, or a SyntaxError
JsonParse(bytes) ==
    IF bytes = GoodJsonBytes THEN [ok |-> TRUE, value |-> GoodJsonObject]
    ELSE IF bytes = <<49>> THEN [ok |-> TRUE, value |-> JsonNumber(1)]
    ELSE [ok |-> FALSE]

\* parsedPayload.<name>: undefined when the parsed value has no such property
Property(value, name) ==
    IF "t" \notin DOMAIN value /\ name \in DOMAIN value THEN value[name] ELSE JsonUndefined

\* the TypeError of the runtime: BigInt(undefined), or a property read on undefined
TypeError == [name |-> "TypeError"]

InvalidUnsignedPayload(message) == [name |-> "InvalidUnsignedPayload", message |-> message]

\* lines 166-173: the fields of the ethers.Transaction; BigInt(number) is the number
TransactionOf(parsedPayload) ==
    [chainId |-> parsedPayload.chainId.v, nonce |-> parsedPayload.nonce.v,
     maxPriorityFeePerGas |-> parsedPayload.maxPriorityFeePerGas.v,
     maxFeePerGas |-> parsedPayload.maxFeePerGas.v,
     gasLimit |-> parsedPayload.gas.v,
     to |-> IF parsedPayload.to.t = "null" THEN Null ELSE parsedPayload.to.v,
     value |-> parsedPayload.value.v, data |-> parsedPayload.input.v,
     signature |-> Null]

\* lines 148-166: the decoding of an unsigned payload
Decode(hexPayload) ==
    LET pairs == MatchPairs(Chars(hexPayload))
        rawPayload == [i \in DOMAIN pairs |-> ParseInt16(pairs[i])]
    IN  IF Len(rawPayload) = 0
        THEN Throw(InvalidUnsignedPayload("Unable to parse unsigned payload"))
        ELSE LET rawPayloadBytes == [i \in DOMAIN rawPayload |-> ToUint8(rawPayload[i])]
                 parsed == JsonParse(rawPayloadBytes)
             IN  IF ~parsed.ok
                 THEN Throw(InvalidUnsignedPayload("Unable to decode unsigned payload JSON"))
                 ELSE IF Property(parsed.value, "chainId") = JsonUndefined
                 THEN Throw(TypeError)
                 ELSE Return(TransactionOf(parsed.value))

UnsignedPayloads == {GoodPayload, "0x1"}

\* more unsigned payloads: of odd length, with characters that are no hex digits
CodecPayloads == UnsignedPayloads \cup {OddPayload, "1", "zz", "311"}

\* Decode over the payloads of the model
Decoded == [p \in CodecPayloads |-> Decode(p)]

\* this.transaction while it is undefined
NoTransaction == [kind |-> "undefined"]

\* the transactions a caller hands to setSignedTransaction
SignedTransactions ==
    {[TransactionOf(GoodJsonObject) EXCEPT !.signature = sig] : sig \in {"sigA", "sigB"}}

-----
(* getStatus, cut at its two awaits.  A frame records the queries issued   *)
(* and the provider's answers.                                             *)

IdleStatus ==
    [pc |-> "idle", caller |-> "none", transactionHash |-> Undefined, queries |-> <<>>,
     txReply |-> NoReply, receiptReply |-> NoReply, result |-> NoResult]

Query(method, hash) == [method |-> method, hash |-> hash]

\* lines 194-198: up to the first await
GetStatusBeginQueryAlwaysMutant(caller) ==
    [IdleStatus EXCEPT !.caller = caller, !.pc = "awaitTransaction",
        !.transactionHash = GetTransactionHash,
        !.queries = <<Query("getTransaction", GetTransactionHash)>>]

GetStatusBegin(caller) ==
    LET transactionHash == GetTransactionHash
        f == [IdleStatus EXCEPT !.caller = caller, !.transactionHash = transactionHash]
    IN  IF Falsy(transactionHash)
        THEN [f EXCEPT !.pc = "done", !.result = Return(PENDING)]
        ELSE IF client.baseSepoliaProvider \in {Undefined, Null}
        THEN [f EXCEPT !.pc = "done", !.result = Throw(TypeError)]
        ELSE [f EXCEPT !.pc = "awaitTransaction",
                 !.queries = <<Query("getTransaction", transactionHash)>>]

\* lines 198-203: the provider answers getTransaction
GetStatusOnTransactionNoBlockCheckMutant(f, reply) ==
    LET g == [f EXCEPT !.txReply = reply] IN
    IF reply.kind = "error"
    THEN [g EXCEPT !.pc = "done", !.result = Throw(ProviderError(reply))]
    ELSE IF reply.kind = "null"
    THEN [g EXCEPT !.pc = "done", !.result = Return(PENDING)]
    ELSE [g EXCEPT !.pc = "awaitReceipt",
             !.queries = Append(f.queries, Query("getTransactionReceipt", f.transactionHash))]

GetStatusOnTransactionNullCheckMutant(f, reply) ==
    LET g == [f EXCEPT !.txReply = reply] IN
    IF reply.kind = "error"
    THEN [g EXCEPT !.pc = "done", !.result = Throw(ProviderError(reply))]
    ELSE IF reply.kind = "null" \/ Falsy(reply.blockHash)
    THEN [g EXCEPT !.pc = "done", !.result = Return(BROADCAST)]
    ELSE [g EXCEPT !.pc = "awaitReceipt",
             !.queries = Append(f.queries, Query("getTransactionReceipt", f.transactionHash))]

\* a getStatus that latches the terminal status it gave before
GetStatusOnTransactionLatchedMutant(f, reply) ==
    LET g == [f EXCEPT !.txReply = reply] IN
    IF kept # NoResult
    THEN [g EXCEPT !.pc = "done", !.result = Return(kept.status)]
    ELSE IF reply.kind = "error"
    THEN [g EXCEPT !.pc = "done", !.result = Throw(ProviderError(reply))]
    ELSE IF reply.kind = "null"
    THEN [g EXCEPT !.pc = "done", !.result = Return(PENDING)]
    ELSE IF Falsy(reply.blockHash)
    THEN [g EXCEPT !.pc = "done", !.result = Return(BROADCAST)]
    ELSE [g EXCEPT !.pc = "awaitReceipt",
             !.queries = Append(f.queries, Query("getTransactionReceipt", f.transactionHash))]

GetStatusOnTransaction(f, reply) ==
    LET g == [f EXCEPT !.txReply = reply] IN
    IF reply.kind = "error"
    THEN [g EXCEPT !.pc = "done", !.result = Throw(ProviderError(reply))]
    ELSE IF reply.kind = "null"
    THEN [g EXCEPT !.pc = "done", !.result = Return(PENDING)]
    ELSE IF Falsy(reply.blockHash)
    THEN [g EXCEPT !.pc = "done", !.result = Return(BROADCAST)]
    ELSE [g EXCEPT !.pc = "awaitReceipt",
             !.queries = Append(f.queries, Query("getTransactionReceipt", f.transactionHash))]

\* transactionReceipt?.status, as a condition
ReceiptStatusIgnoredMutant(reply) == reply.kind = "receipt"

ReceiptStatusTruthy(reply) == reply.kind = "receipt" /\ reply.status # 0

\* lines 203-204: the provider answers getTransactionReceipt
GetStatusOnReceiptCatchMutant(f, reply) ==
    [f EXCEPT !.receiptReply = reply, !.pc = "done",
        !.result = Return(IF ReceiptStatusTruthy(reply) THEN COMPLETE ELSE FAILED)]

GetStatusOnReceipt(f, reply) ==
    LET g == [f EXCEPT !.receiptReply = reply, !.pc = "done"] IN
    IF reply.kind = "error"
    THEN [g EXCEPT !.result = Throw(ProviderError(reply))]
    ELSE [g EXCEPT !.result = Return(IF ReceiptStatusTruthy(reply) THEN COMPLETE ELSE FAILED)]

-----------------------------------------------------------------------------
(* wait *)

\* Date.now(), in milliseconds
DateNow == clock * 1000

\* the times of a frame are in milliseconds
IdleWait ==
    [pc |-> "idle", intervalSeconds |-> 0, timeoutSeconds |-> 0, startTime |-> 0,
     wake |-> 0, polls |-> 0, lastPollStart |-> 0, lastPollEnd |-> 0,
     endTime |-> 0]

\* line 219
IsTerminalMutant(status) == status # PENDING

IsTerminal(status) == status = COMPLETE \/ status = FAILED

\* delay(seconds) (./utils): the time, in milliseconds, at which the timer fires
Delay(seconds) == DateNow + seconds * 1000

\* line 217: the loop condition
WaitContinuesSecondsMutant(w0) == DateNow - w0.startTime < w0.timeoutSeconds

\* a loop without deadline
WaitContinuesForeverMutant(w0) == TRUE

WaitContinues(w0) == DateNow - w0.startTime < w0.timeoutSeconds * 1000

\* lines 218-222 after `await this.getStatus()` settles with frame f
WaitAfterStatusNoDelayMutant(w0, f) ==
    LET w1 == [w0 EXCEPT !.lastPollEnd = DateNow] IN
    /\ gs' = f
    /\ IF f.result.kind = "throw"
       THEN /\ w' = [w1 EXCEPT !.pc = "done", !.endTime = DateNow]
            /\ result' = [op |-> "wait"] @@ f.result
            /\ op' = "none"
       ELSE IF IsTerminal(f.result.value)
       THEN /\ w' = [w1 EXCEPT !.pc = "done", !.endTime = DateNow]
            /\ result' = [op |-> "wait"] @@ Return("this")
            /\ op' = "none"
       ELSE /\ w' = [w1 EXCEPT !.pc = "delay", !.wake = DateNow]
            /\ result' = Pending
            /\ op' = "wait"

WaitAfterStatus(w0, f) ==
    LET w1 == [w0 EXCEPT !.lastPollEnd = DateNow] IN
    /\ gs' = f
    /\ IF f.result.kind = "throw"
       THEN /\ w' = [w1 EXCEPT !.pc = "done", !.endTime = DateNow]
            /\ result' = [op |-> "wait"] @@ f.result
            /\ op' = "none"
       ELSE IF IsTerminal(f.result.value)
       THEN /\ w' = [w1 EXCEPT !.pc = "done", !.endTime = DateNow]
            /\ result' = [op |-> "wait"] @@ Return("this")
            /\ op' = "none"
       ELSE /\ w' = [w1 EXCEPT !.pc = "delay", !.wake = Delay(w0.intervalSeconds)]
            /\ result' = Pending
            /\ op' = "wait"

\* lines 217-218 and 224: the head of the loop, entered at the call and after
\* every delay, up to the next await
WaitLoopHead(w0) ==
    IF WaitContinues(w0)
    THEN LET f == GetStatusBegin("wait")
             w1 == [w0 EXCEPT !.polls = w0.polls + 1, !.lastPollStart = DateNow]
         IN  IF f.pc = "done"
             THEN WaitAfterStatus(w1, f)
             ELSE /\ gs' = f
                  /\ w' = [w1 EXCEPT !.pc = "polling"]
                  /\ result' = Pending
                  /\ op' = "wait"
    ELSE /\ w' = [w0 EXCEPT !.pc = "done", !.endTime = DateNow]
         /\ result' = [op |-> "wait"] @@ Throw(TimeoutError(model))
         /\ op' = "none"
         /\ gs' = IF w0.polls = 0 THEN IdleStatus ELSE gs

-----------------------------------------------------------------------------
(* The settling of a getStatus frame, by who awaits it *)

\* lines 242-248: toString after `await this.getStatus()`
ToStringAfterStatus(f) ==
    IF f.result.kind = "throw" THEN f.result ELSE Return(ToStringValue(f.result.value))

Settle(f) ==
    IF f.pc # "done"
    THEN /\ gs' = f
         /\ result' = Pending
         /\ op' = f.caller
         /\ w' = IF f.caller = "wait" THEN w ELSE IdleWait
    ELSE CASE f.caller = "wait" -> WaitAfterStatus(w, f)
           [] f.caller = "getStatus" ->
                /\ gs' = f
                /\ result' = [op |-> "getStatus"] @@ f.result
                /\ op' = "none"
                /\ w' = IdleWait
           [] f.caller = "toString" ->
                /\ gs' = f
                /\ result' = [op |-> "toString"] @@ ToStringAfterStatus(f)
                /\ op' = "none"
                /\ w' = IdleWait

-----------------------------------------------------------------------------
(* Actions: the asynchronous methods *)

\* transfer.getStatus()
CallGetStatus ==
    /\ op = "none"
    /\ Settle(GetStatusBegin("getStatus"))
    /\ UNCHANGED <<model, transaction, ret, seen, clock, client, made, kept, amountRet>>

\* transfer.toString()
CallToString ==
    /\ op = "none"
    /\ Settle(GetStatusBegin("toString"))
    /\ UNCHANGED <<model, transaction, ret, seen, clock, client, made, kept, amountRet>>

\* transfer.wait(intervalSeconds, timeoutSeconds): lines 215-218
CallWait(intervalSeconds, timeoutSeconds) ==
    /\ op = "none"
    /\ WaitLoopHead([IdleWait EXCEPT !.intervalSeconds = intervalSeconds,
                        !.timeoutSeconds = timeoutSeconds, !.startTime = DateNow])
    /\ UNCHANGED <<model, transaction, ret, seen, clock, client, made, kept, amountRet>>

\* the provider settles the pending getTransaction query
GetTransactionReply(reply) ==
    /\ op # "none"
    /\ gs.pc = "awaitTransaction"
    /\ Settle(GetStatusOnTransaction(gs, reply))
    /\ UNCHANGED <<model, transaction, ret, seen, clock, client, made, kept, amountRet>>

\* the provider settles the pending getTransactionReceipt query
GetTransactionReceiptReplyDropsCacheMutant(reply) ==
    /\ op # "none"
    /\ gs.pc = "awaitReceipt"
    /\ Settle(GetStatusOnReceipt(gs, reply))
    /\ transaction' = NoTransaction
    /\ UNCHANGED <<model, ret, seen, clock, client, made, kept, amountRet>>

GetTransactionReceiptReply(reply) ==
    /\ op # "none"
    /\ gs.pc = "awaitReceipt"
    /\ Settle(GetStatusOnReceipt(gs, reply))
    /\ UNCHANGED <<model, transaction, ret, seen, clock, client, made, kept, amountRet>>

\* delay(intervalSeconds) (./utils) is over: the loop goes round
DelayElapsed ==
    /\ op = "wait"
    /\ w.pc = "delay"
    /\ DateNow >= w.wake
    /\ WaitLoopHead(w)
    /\ UNCHANGED <<model, transaction, ret, seen, clock, client, made, kept, amountRet>>

\* a second passes; a timer that is due fires before the clock moves on
Tick ==
    /\ clock < MaxClock
    /\ ~(op = "wait" /\ w.pc = "delay" /\ DateNow >= w.wake)
    /\ clock' = clock + 1
    /\ UNCHANGED <<model, transaction, op, gs, w, result, ret, seen, client, made, kept, amountRet>>

-----------------------------------------------------------------------------
(* Actions: the synchronous methods *)

\* transfer.getSignedPayload(): lines 126-128
CallGetSignedPayload ==
    /\ seen' = [seen EXCEPT !.signed_payload = GetSignedPayload]
    /\ UNCHANGED <<model, transaction, op, gs, w, result, ret, clock, client, made, kept, amountRet>>

\* transfer.getTransactionHash(): lines 135-137
CallGetTransactionHash ==
    /\ seen' = [seen EXCEPT !.transaction_hash = GetTransactionHash]
    /\ UNCHANGED <<model, transaction, op, gs, w, result, ret, clock, client, made, kept, amountRet>>

\* transfer.getAmount(): lines 103-110
CallGetAmount ==
    /\ amountRet' = Return(GetAmount)
    /\ UNCHANGED <<model, transaction, op, gs, w, result, ret, seen, clock, client, made, kept>>

\* transfer.getTransaction(): lines 145-177
GetTransactionOutcomeNoCacheMutant == Decoded[GetUnsignedPayload]

GetTransactionOutcome ==
    IF transaction # NoTransaction THEN Return(transaction) ELSE Decoded[GetUnsignedPayload]

\* line 175 caching a transaction other than the one returned
CallGetTransactionCachesOtherMutant ==
    /\ ret' = GetTransactionOutcome
    /\ transaction' = IF GetTransactionOutcome.kind = "return"
                      THEN [GetTransactionOutcome.value EXCEPT !.data = Null]
                      ELSE transaction
    /\ UNCHANGED <<model, op, gs, w, result, seen, clock, client, made, kept, amountRet>>

CallGetTransaction ==
    /\ ret' = GetTransactionOutcome
    /\ transaction' = IF GetTransactionOutcome.kind = "return"
                      THEN GetTransactionOutcome.value ELSE transaction
    /\ UNCHANGED <<model, op, gs, w, result, seen, clock, client, made, kept, amountRet>>

\* transfer.setSignedTransaction(t): lines 184-186
SetSignedTransactionAlsoSetsPayloadMutant(t) ==
    /\ transaction' = t
    /\ model' = [model EXCEPT !.signed_payload = t.signature]

SetSignedTransactionSetsHashMutant(t) ==
    /\ transaction' = t
    /\ model' = [model EXCEPT !.transaction_hash = "0xh1"]

SetSignedTransaction(t) ==
    /\ transaction' = t
    /\ UNCHANGED model

CallSetSignedTransaction(t) ==
    /\ SetSignedTransaction(t)
    /\ UNCHANGED <<op, gs, w, result, ret, seen, clock, client, made, kept, amountRet>>

-----------------------------------------------------------------------------
(* The specification *)


\* the models a Transfer is constructed from (lines 32-42)
TransferModels ==
    [transfer_id : TransferIds, network_id : {"base-sepolia"}, wallet_id : {"w1"},
     address_id : {"0xfrom"}, destination : {"0xto"}, asset_id : {Eth},
     amount : {"2500000000000000000"}, unsigned_payload : UnsignedPayloads,
     signed_payload : SignedPayloads, transaction_hash : TransactionHashes]

\* the Transfer right after its construction: nothing called yet
Fresh ==
    /\ transaction = NoTransaction
    /\ op = "none"
    /\ gs = IdleStatus
    /\ w = IdleWait
    /\ result = Pending
    /\ ret = NoResult
    /\ seen = [signed_payload |-> "uncalled", transaction_hash |-> "uncalled"]
    /\ clock = 0
    /\ kept = NoResult
    /\ amountRet = NoResult

Init ==
    /\ model \in TransferModels
    /\ client = Client(Provider)
    /\ made = Return("this")
    /\ Fresh

Next ==
    \/ CallGetStatus
    \/ CallToString
    \/ \E i \in IntervalSeconds, t \in TimeoutSeconds : CallWait(i, t)
    \/ \E reply \in TransactionReplies : GetTransactionReply(reply)
    \/ \E reply \in ReceiptReplies : GetTransactionReceiptReply(reply)
    \/ DelayElapsed
    \/ Tick
    \/ CallGetSignedPayload
    \/ CallGetTransactionHash
    \/ CallGetTransaction
    \/ \E t \in SignedTransactions : CallSetSignedTransaction(t)

Spec == Init /\ [][Next]_vars

-----------------------------------------------------------------------------
(* The constructor (lines 32-42), followed by getStatus and toString *)

\* an argument that is not given (undefined)
MissingModel == [kind |-> "undefined"]
MissingClient == [kind |-> "undefined"]

InternalError(message) == [name |-> "InternalError", message |-> message]

\* new Transfer(transferModel, cl)
New(transferModel, cl) ==
    /\ made = NoResult
    /\ IF transferModel = MissingModel
       THEN /\ made' = Throw(InternalError("Transfer model cannot be empty"))
            /\ UNCHANGED <<model, client>>
       ELSE IF cl = MissingClient
       THEN /\ made' = Throw(InternalError("API clients cannot be empty"))
            /\ model' = transferModel
            /\ UNCHANGED client
       ELSE /\ made' = Return("this")
            /\ model' = transferModel
            /\ client' = cl
    /\ UNCHANGED <<transaction, op, gs, w, result, ret, seen, clock, kept, amountRet>>

\* the constructor returned: there is a Transfer to call methods on
Constructed == made.kind = "return"

\* the clients a Transfer is constructed with: none, with and without provider
Clients == {MissingClient, Client(Undefined), Client(Provider)}

InitNew ==
    /\ model = MissingModel
    /\ client = MissingClient
    /\ made = NoResult
    /\ Fresh

NextNew ==
    \/ \E transferModel \in TransferModels \cup {MissingModel}, cl \in Clients :
            New(transferModel, cl)
    \/ Constructed /\ CallGetStatus
    \/ Constructed /\ CallToString
    \/ \E reply \in TransactionReplies : GetTransactionReply(reply)
    \/ \E reply \in ReceiptReplies : GetTransactionReceiptReply(reply)

SpecNew == InitNew /\ [][NextNew]_vars

-----------------------------------------------------------------------------
(* getStatus called again and again, by a caller that keeps the first      *)
(* terminal status it is given                                              *)

\* the caller keeps COMPLETE or FAILED as returned by the getStatus call that
\* has just finished, with the receipt it was derived from
KeepStatus ==
    /\ op = "none"
    /\ kept = NoResult
    /\ gs.pc = "done"
    /\ gs.caller = "getStatus"
    /\ gs.result.kind = "return"
    /\ IsTerminal(gs.result.value)
    /\ kept' = [status |-> gs.result.value, receiptReply |-> gs.receiptReply]
    /\ UNCHANGED <<model, transaction, op, gs, w, result, ret, seen, clock, client, made,
                   amountRet>>

NextStatus ==
    \/ CallGetStatus
    \/ \E reply \in TransactionReplies : GetTransactionReply(reply)
    \/ \E reply \in ReceiptReplies : GetTransactionReceiptReply(reply)
    \/ KeepStatus

SpecStatus == Init /\ [][NextStatus]_vars

-----------------------------------------------------------------------------
(* wait under fair scheduling: every query of the provider is answered,    *)
(* every timer fires, and the clock advances as long as a timer waits for  *)
(* it.  The Transfer is constructed with or without provider.              *)

MaxOf(S) == CHOOSE x \in S : \A y \in S : y <= x

\* the latest time a timer of a wait called by MaxClock can be due
ClockCap == MaxClock + MaxOf(TimeoutSeconds) + MaxOf(IntervalSeconds)

\* a second passes beyond MaxClock, towards the timer of a pending delay
TickToTimer ==
    /\ clock >= MaxClock
    /\ clock < ClockCap
    /\ op = "wait"
    /\ w.pc = "delay"
    /\ DateNow < w.wake
    /\ clock' = clock + 1
    /\ UNCHANGED <<model, transaction, op, gs, w, result, ret, seen, client, made, kept, amountRet>>

InitWait ==
    /\ model \in TransferModels
    /\ client \in {Client(Provider), Client(Undefined)}
    /\ made = Return("this")
    /\ Fresh

ProviderAnswers ==
    \/ \E reply \in TransactionReplies : GetTransactionReply(reply)
    \/ \E reply \in ReceiptReplies : GetTransactionReceiptReply(reply)

NextWait ==
    \/ \E i \in IntervalSeconds, t \in TimeoutSeconds : clock <= MaxClock /\ CallWait(i, t)
    \/ ProviderAnswers
    \/ DelayElapsed
    \/ Tick
    \/ TickToTimer

\* the event loop runs every continuation that is ready (a settled query, a
\* timer that is due), and time passes
SpecWaitFair ==
    /\ InitWait
    /\ [][NextWait]_vars
    /\ WF_vars(ProviderAnswers)
    /\ WF_vars(DelayElapsed)
    /\ WF_vars(Tick)
    /\ WF_vars(TickToTimer)

-----------------------------------------------------------------------------
(* The synchronous methods alone (getTransaction, setSignedTransaction,    *)
(* getAmount), over more unsigned payloads, amounts and assets              *)

AssetIds == {Eth, "usdc"}
Amounts ==
    {"999", "1000000000000000000", "2500000000000000000",
     "1000000000000000000000000000000"}

CodecModels ==
    [transfer_id : {"t1"}, network_id : {"base-sepolia"}, wallet_id : {"w1"},
     address_id : {"0xfrom"}, destination : {"0xto"}, asset_id : AssetIds,
     amount : Amounts, unsigned_payload : CodecPayloads,
     signed_payload : SignedPayloads, transaction_hash : TransactionHashes]

InitCodec ==
    /\ model \in CodecModels
    /\ client = Client(Provider)
    /\ made = Return("this")
    /\ Fresh

NextCodec ==
    \/ CallGetTransaction
    \/ \E t \in SignedTransactions : CallSetSignedTransaction(t)
    \/ CallGetAmount

SpecCodec == InitCodec /\ [][NextCodec]_vars

-----------------------------------------------------------------------------
(* Properties of getStatus.  They are stated of every getStatus invocation *)
(* (made directly, by toString or by a poll of wait), through its frame.   *)

\* the getStatus invocation of the frame has finished
StatusDone == gs.pc = "done"

\* getTransaction answered with a transaction that has a block hash
TransactionInBlock == gs.txReply.kind = "tx" /\ ~Falsy(gs.txReply.blockHash)

MethodsQueried == {gs.queries[i].method : i \in DOMAIN gs.queries}

\* C1: a getStatus on a Transfer without transaction hash returns PENDING and
\* sends no query to the provider, neither getTransaction nor
\* getTransactionReceipt.
C1_NoHashPendingWithoutQuery ==
    (gs.pc # "idle" /\ GetTransactionHash = Undefined) =>
        /\ StatusDone
        /\ gs.result = Return(PENDING)
        /\ gs.queries = <<>>

C1_Witness ==
    /\ GetTransactionHash = Undefined
    /\ gs.caller = "getStatus"
    /\ result = [op |-> "getStatus", kind |-> "return", value |-> PENDING]

\* C2: with a hash, a transaction found in a block and a receipt returned,
\* getStatus returns COMPLETE if the receipt's status is 1 and FAILED if not.
C2_ReceiptDecidesCompleteOrFailed ==
    (StatusDone /\ TransactionInBlock /\ gs.receiptReply.kind = "receipt") =>
        /\ gs.result.kind = "return"
        /\ (gs.result.value = COMPLETE) <=> (gs.receiptReply.status = 1)
        /\ (gs.result.value = FAILED) <=> (gs.receiptReply.status # 1)

C2_Witness ==
    /\ StatusDone /\ TransactionInBlock
    /\ gs.receiptReply = [kind |-> "receipt", status |-> 0]
    /\ result = [op |-> "getStatus", kind |-> "return", value |-> FAILED]

\* C3: with a hash and a transaction found without block hash, getStatus
\* returns BROADCAST and never asks for the receipt.
C3_NoBlockIsBroadcastWithoutReceiptQuery ==
    (gs.txReply.kind = "tx" /\ Falsy(gs.txReply.blockHash)) =>
        /\ StatusDone
        /\ gs.result = Return(BROADCAST)
        /\ "getTransactionReceipt" \notin MethodsQueried
        /\ gs.receiptReply = NoReply

C3_Witness ==
    /\ gs.txReply = [kind |-> "tx", blockHash |-> Null]
    /\ result = [op |-> "getStatus", kind |-> "return", value |-> BROADCAST]

\* C4: with a hash, a transaction found in a block and no receipt (null),
\* getStatus returns BROADCAST, not FAILED and not an error.
C4_MissingReceiptIsBroadcast ==
    (StatusDone /\ TransactionInBlock /\ gs.receiptReply.kind = "null") =>
        gs.result = Return(BROADCAST)

\* C5: with a hash and no transaction found (null), getStatus returns PENDING
\* and never asks for the receipt.
C5_NotFoundIsPendingWithoutReceiptQuery ==
    gs.txReply.kind = "null" =>
        /\ StatusDone
        /\ gs.result = Return(PENDING)
        /\ "getTransactionReceipt" \notin MethodsQueried
        /\ gs.receiptReply = NoReply

C5_Witness ==
    /\ gs.txReply.kind = "null"
    /\ gs.transactionHash = "0xh1"
    /\ result = [op |-> "getStatus", kind |-> "return", value |-> PENDING]

-----------------------------------------------------------------------------
(* Properties of wait.  The frame w is that of the wait in flight, or of   *)
(* the wait that finished last while no other async method was called; gs  *)
(* is then the frame of its last poll.                                     *)

\* the last async call was a wait and it threw the timeout error of line 224
WaitTimedOut == result.op = "wait" /\ result.kind = "throw" /\ result.value.name = "Error"

\* the last async call was a wait and it returned
WaitReturned == result.op = "wait" /\ result.kind = "return"

\* milliseconds from the start of the wait to its end
Elapsed == w.endTime - w.startTime

\* milliseconds the last poll's getStatus took
LastStatusDuration == w.lastPollEnd - w.lastPollStart

Range(seq) == {seq[i] : i \in DOMAIN seq}

\* C6 as stated: a timeout comes at an elapsed time of at least T and less
\* than T plus one poll interval, whatever the status queries take.
C6_TimeoutWithinOneInterval ==
    WaitTimedOut =>
        /\ Elapsed >= w.timeoutSeconds * 1000
        /\ Elapsed < (w.timeoutSeconds + w.intervalSeconds) * 1000

\* C6, amended: a wait that fails with the timeout error saw no terminal
\* state, fails at an elapsed time of at least T, began its last poll before
\* T, and so fails less than one poll interval plus the duration of its last
\* status query after T.
C6_TimeoutNotBeforeDeadline ==
    WaitTimedOut =>
        /\ Elapsed >= w.timeoutSeconds * 1000
        /\ w.polls > 0 =>
              /\ gs.result.kind = "return"
              /\ gs.result.value \notin {COMPLETE, FAILED}
              /\ w.lastPollStart - w.startTime < w.timeoutSeconds * 1000
        /\ Elapsed < (w.timeoutSeconds + w.intervalSeconds) * 1000 + LastStatusDuration

C6_Witness ==
    /\ WaitTimedOut
    /\ w.polls >= 2
    /\ LastStatusDuration > 0
    /\ Elapsed >= (w.timeoutSeconds + w.intervalSeconds) * 1000

\* C7: a wait returns only when its last getStatus poll returned COMPLETE or
\* FAILED, at the time of that poll's answer; and once a poll of a wait has
\* returned COMPLETE or FAILED the wait has returned: it is neither delaying
\* nor polling again.
C7_ReturnsRightAfterTerminalPoll ==
    /\ WaitReturned =>
          /\ result.value = "this"
          /\ w.pc = "done" /\ w.polls >= 1
          /\ gs.caller = "wait" /\ StatusDone
          /\ gs.result.kind = "return" /\ gs.result.value \in {COMPLETE, FAILED}
          /\ w.endTime = w.lastPollEnd
    /\ (gs.caller = "wait" /\ StatusDone /\ gs.result.kind = "return"
            /\ gs.result.value \in {COMPLETE, FAILED}) =>
          /\ w.pc = "done"
          /\ WaitReturned

C7_Witness ==
    /\ WaitReturned
    /\ w.polls >= 2
    /\ gs.result.value = FAILED

\* the provider rejected a query of the frame's getStatus
QueryFailed == gs.txReply.kind = "error" \/ gs.receiptReply.kind = "error"

FailedQueryError ==
    [name |-> IF gs.txReply.kind = "error" THEN gs.txReply.error ELSE gs.receiptReply.error]

\* C8: a rejected provider query ends getStatus with that error, never with
\* a status; the async method awaiting it (getStatus, toString, wait) ends
\* with the same error, and a wait ends at once: no delay and no poll follow.
C8_QueryFailurePropagates ==
    QueryFailed =>
        /\ StatusDone
        /\ gs.result = Throw(FailedQueryError)
        /\ result = [op |-> gs.caller] @@ Throw(FailedQueryError)
        /\ gs.caller = "wait" => (w.pc = "done" /\ w.endTime = w.lastPollEnd)

C8_Witness ==
    /\ gs.caller = "wait"
    /\ w.polls >= 2
    /\ gs.receiptReply = [kind |-> "error", error |-> "ServerError"]
    /\ result = [op |-> "wait", kind |-> "throw", value |-> [name |-> "ServerError"]]

-----------------------------------------------------------------------------
(* Properties of the record *)

Returned(v) == v # "uncalled" /\ v # Undefined

\* C10: once getSignedPayload or getTransactionHash has returned a value, no
\* step of any Transfer operation changes the field, and every later call of
\* the getter returns that value.
C10_OptionalFieldsKeepTheirValue ==
    [][/\ Returned(seen.signed_payload) =>
             /\ GetSignedPayload' = seen.signed_payload
             /\ seen'.signed_payload = seen.signed_payload
       /\ Returned(seen.transaction_hash) =>
             /\ GetTransactionHash' = seen.transaction_hash
             /\ seen'.transaction_hash = seen.transaction_hash]_vars

C10_Witness ==
    /\ seen.signed_payload = "0xs1"
    /\ seen.transaction_hash = "0xh1"
    /\ transaction \in SignedTransactions
    /\ ret.kind = "return"
    /\ WaitReturned

-----------------------------------------------------------------------------
(* Properties of getTransaction and setSignedTransaction.                  *)
(* GetTransactionOutcome is how a getTransaction call made in the state    *)
(* ends; ret is how the last call made ended.                              *)

\* some setSignedTransaction call
SomeSetSignedTransaction == \E t \in SignedTransactions : CallSetSignedTransaction(t)

\* C11, as stated: any two getTransaction calls on the same Transfer return
\* structurally equal transactions (a call that returns a transaction returns
\* the one the call before it returned).
C11_AnyTwoCallsReturnEqual ==
    [][(CallGetTransaction /\ ret.kind = "return" /\ ret'.kind = "return")
          => ret'.value = ret.value]_vars

\* C11, amended: two getTransaction calls with no setSignedTransaction between
\* them end the same way, with structurally equal transactions or with the
\* same error: a call made right after a call ends as that call did, and as
\* long as the next call would end as the last one did, only a
\* setSignedTransaction changes that.
C11_SameOutcomeUntilSigned ==
    [][/\ CallGetTransaction => GetTransactionOutcome' = ret'
       /\ (ret # NoResult /\ GetTransactionOutcome = ret /\ ~SomeSetSignedTransaction)
             => GetTransactionOutcome' = ret']_vars

\* a decoded transaction was returned and is what the next call returns
C11_Witness ==
    /\ ret = Decoded[GoodPayload]
    /\ transaction = ret.value
    /\ GetTransactionOutcome = ret

\* the payloads that have odd length or contain a character that is no hex digit
MalformedPayloads ==
    {p \in CodecPayloads :
        \/ Len(Chars(p)) % 2 = 1
        \/ \E i \in DOMAIN Chars(p) : ~IsHex(Chars(p)[i])}

\* the error of line 154: the payload cannot be split into byte pairs
MalformedPayloadError == InvalidUnsignedPayload("Unable to parse unsigned payload")

\* C12: a getTransaction call that decodes an unsignedPayload of odd length
\* or with a non-hex character (such as "0x1") fails with the
\* malformed-payload error: it returns no transaction and fails with no other
\* error (JSON encoding, schema).
C12_MalformedPayloadFailsAsMalformed ==
    [][(CallGetTransaction /\ transaction = NoTransaction
            /\ GetUnsignedPayload \in MalformedPayloads)
          => ret' = Throw(MalformedPayloadError)]_vars

-----------------------------------------------------------------------------
(* Properties of getAmount *)

\* v * 10^k on digit sequences
MulPow10(digits, k) ==
    IF digits = <<"0">> THEN digits ELSE digits \o [i \in 1..k |-> "0"]

\* C13: for the native asset (ETH), the value v that getAmount returns is the
\* atomic amount in display units exactly: v * 10^18 is the atomic amount,
\* nothing is truncated (2500000000000000000 gives 2.5), up to 10^30.
C13_NativeAmountIsExact ==
    (amountRet.kind = "return" /\ GetAssetId = Eth)
        => MulPow10(amountRet.value, WeiDecimals) = BigIntOfDecimal(model.amount)

-----------------------------------------------------------------------------
(* Properties of the constructor *)

\* a method of the Transfer failed on reading the missing provider
FailedOnMissingProvider == StatusDone /\ gs.result = Throw(TypeError)

\* C14: constructing a Transfer with a missing model, a missing client set or
\* a missing provider inside the client set fails at construction: no Transfer
\* is constructed without one of them, and no later operation of a Transfer
\* fails because the provider was missing at construction.
C14_MissingDependencyFailsAtConstruction ==
    /\ Constructed =>
          /\ model # MissingModel
          /\ client # MissingClient
          /\ client.baseSepoliaProvider # Undefined
    /\ ~FailedOnMissingProvider

-----------------------------------------------------------------------------
(* Properties of wait: the order of its polls *)

\* a getStatus invocation is in flight
StatusInFlight == gs.pc \in {"awaitTransaction", "awaitReceipt"}

\* C15: the polls of one wait call are strictly sequential.  A poll of the
\* wait starts only when the poll before it has completed and the delay after
\* it has elapsed (intervalSeconds after that poll ended), and while the wait
\* runs, a getStatus invocation is in flight exactly when the wait is at its
\* poll: never during the delay, never two at a time.
C15_PollsAreSequential ==
    [][/\ (op = "wait" /\ w'.polls = w.polls + 1) =>
             /\ w.pc = "delay"
             /\ ~StatusInFlight
             /\ w'.lastPollStart >= w.lastPollEnd + w.intervalSeconds * 1000
       /\ op' = "wait" =>
             /\ w'.pc = "polling" <=> StatusInFlight'
             /\ StatusInFlight' => gs'.caller = "wait"]_vars

\* the second poll of a wait is in flight
C15_Witness ==
    /\ op = "wait"
    /\ w.polls = 2
    /\ w.pc = "polling"
    /\ StatusInFlight

\* C16: every wait call invokes getStatus before it first compares the
\* elapsed time with the timeout: a wait call has polled at least once,
\* whatever timeoutSeconds >= 0 it is given (0 included), and one that fails
\* with the timeout error has got a status that is not terminal from its last
\* poll (a Transfer that is COMPLETE or FAILED makes it return).
C16_WaitPollsBeforeTimeout ==
    /\ w.pc # "idle" => w.polls >= 1
    /\ WaitTimedOut =>
          /\ gs.caller = "wait"
          /\ gs.result.kind = "return"
          /\ ~IsTerminal(gs.result.value)

-----------------------------------------------------------------------------
(* Properties of getStatus called again after a terminal status.  kept is  *)
(* the terminal status an earlier getStatus call returned.                 *)

\* C17, as stated: once a getStatus call has returned COMPLETE or FAILED,
\* every later getStatus call returns that same state, whatever the provider
\* answers.
C17_TerminalStatusIsKept ==
    (kept # NoResult /\ StatusDone) => gs.result = Return(kept.status)

\* C17, amended: getStatus keeps no memory.  After a call has returned
\* COMPLETE or FAILED, a later call returns what the provider's answers to
\* that call give: the same state when the transaction is in a block with a
\* receipt of the same status, the other terminal state when the receipt's
\* status differs, BROADCAST when the transaction has no block, PENDING when
\* it is not found.
C17_LaterStatusFollowsProvider ==
    (kept # NoResult /\ StatusDone /\ gs.txReply.kind \in {"null", "tx"}) =>
        /\ gs.txReply.kind = "null" => gs.result = Return(PENDING)
        /\ (gs.txReply.kind = "tx" /\ ~TransactionInBlock) => gs.result = Return(BROADCAST)
        /\ (TransactionInBlock /\ gs.receiptReply.kind = "receipt"
                /\ kept.receiptReply.kind = "receipt") =>
              IF gs.receiptReply.status = kept.receiptReply.status
              THEN gs.result = Return(kept.status)
              ELSE gs.result \in {Return(COMPLETE), Return(FAILED)} \ {Return(kept.status)}

\* COMPLETE was returned and kept, and a later call returned PENDING
C17_Witness ==
    /\ kept # NoResult
    /\ kept.status = COMPLETE
    /\ result = [op |-> "getStatus", kind |-> "return", value |-> PENDING]
    /\ gs.txReply.kind = "null"

-----------------------------------------------------------------------------
(* Properties of wait and getStatus: what they leave alone *)

\* a step of getStatus, toString or wait: a call, or its continuation after
\* an await
AsyncStep == gs' # gs \/ w' # w \/ result' # result \/ op' # op

\* C18: wait and getStatus leave the record unchanged.  No step of a wait or
\* getStatus call, however the call ends (return, timeout, provider error),
\* changes the model (identifiers, amount, unsignedPayload, signedPayload,
\* transactionHash) or the cached transaction.
C18_WaitAndStatusLeaveRecord ==
    [][AsyncStep => (model' = model /\ transaction' = transaction)]_vars

\* a wait has returned on a Transfer that has a cached transaction
C18_Witness ==
    /\ WaitReturned
    /\ w.polls >= 2
    /\ transaction # NoTransaction

-----------------------------------------------------------------------------
(* Properties of a Transfer without transaction hash *)

NoHash == GetTransactionHash = Undefined

\* C19: a Transfer constructed without transaction hash never acquires one,
\* by no operation (setSignedTransaction included): from then on every
\* getStatus invocation on it returns PENDING, and every wait on it that ends
\* ends with the timeout error, never with a return.
C19_NoHashNeverCompletes ==
    [][NoHash =>
          /\ NoHash'
          /\ gs'.pc # "idle" => gs'.result = Return(PENDING)
          /\ result'.op = "getStatus" => result'.kind = "return" /\ result'.value = PENDING
          /\ result'.op = "wait" => WaitTimedOut']_vars

\* a wait on a Transfer without hash has polled and timed out, after a
\* setSignedTransaction
C19_Witness ==
    /\ NoHash
    /\ transaction \in SignedTransactions
    /\ WaitTimedOut
    /\ w.polls >= 2

-----------------------------------------------------------------------------
(* Properties of setSignedTransaction *)

\* C20: after setSignedTransaction(t), whatever was cached or set before,
\* the next getTransaction returns t; a getTransaction on a Transfer holding
\* a signed transaction returns it, without decoding unsignedPayload (also
\* when that payload cannot be decoded), and leaves it in place; and only
\* another setSignedTransaction changes what getTransaction returns.
C20_SignedTransactionIsReturned ==
    [][/\ \A t \in SignedTransactions :
             CallSetSignedTransaction(t) => GetTransactionOutcome' = Return(t)
       /\ (CallGetTransaction /\ transaction \in SignedTransactions) =>
             /\ ret' = Return(transaction)
             /\ transaction' = transaction
       /\ (transaction \in SignedTransactions /\ ~SomeSetSignedTransaction) =>
             GetTransactionOutcome' = GetTransactionOutcome]_vars

\* getTransaction has returned the signed transaction of a Transfer whose
\* unsigned payload cannot be decoded
C20_Witness ==
    /\ Decoded[GetUnsignedPayload].kind = "throw"
    /\ transaction \in SignedTransactions
    /\ ret = Return(transaction)

-----------------------------------------------------------------------------
(* Termination of wait *)

\* a wait call has ended
WaitEnded == op = "none" /\ result.op = "wait"

\* the wait failed with the error its status query failed with: a rejection
\* of the provider, or the TypeError of a provider that is missing
WaitFailedOnQuery ==
    /\ result.op = "wait"
    /\ result.kind = "throw"
    /\ gs.result = Throw(result.value)
    /\ \/ QueryFailed /\ result.value = FailedQueryError
       \/ client.baseSepoliaProvider = Undefined /\ result.value = TypeError

\* C21: when every provider query and every delay completes and the clock
\* advances, every wait call ends, and it ends in exactly one of three ways:
\* it returns the Transfer, it fails with the timeout error, or it fails
\* with the error of its failed status query.  It never polls forever.
C21_WaitEnds ==
    /\ [](WaitEnded =>
            \/ result = [op |-> "wait"] @@ Return("this") /\ ~WaitTimedOut /\ ~WaitFailedOnQuery
            \/ WaitTimedOut /\ ~WaitReturned /\ ~WaitFailedOnQuery
            \/ WaitFailedOnQuery /\ ~WaitReturned /\ ~WaitTimedOut)
    /\ (op = "wait" ~> WaitEnded)

\* a wait called at MaxClock has polled twice and timed out after it
C21_Witness ==
    /\ WaitEnded
    /\ WaitTimedOut
    /\ w.polls >= 2
    /\ w.startTime = MaxClock * 1000
    /\ clock > MaxClock

====
